---- MODULE Spec2Model ----
(***************************************************************************)
(* Property valuation pipeline: one valuation record (PropertyValuation-   *)
(* State) is created by an entry point, threaded through the five graph    *)
(* nodes (data_collection, comparables, market_analysis, final_valuation,  *)
(* a2a_communication) of a compiled workflow, and the outer boundary turns *)
(* the outcome into the value handed back to the caller.                   *)
(*                                                                         *)
(* Representation of Python values:                                        *)
(*   - Optional[T]: None is <<>>, a present value v is <<v>>.              *)
(*   - a dict is a record; the empty dict {} is the empty function.        *)
(*   - money (floats in the source) is an exact integer count of 1/300     *)
(*     dollar: the mean of three prices and the percentages applied to it  *)
(*     are then integers for prices that are multiples of 100 dollars.     *)
(*   - bathrooms (a float with halves in the source) is a count of half    *)
(*     baths, so 2.5 is 5 and "+ 0.5" is "+ 1".                            *)
(*   - a formatted message (f-string) is a tuple <<text, arguments>>.      *)
(***************************************************************************)
EXTENDS Integers, Sequences, FiniteSets, TLC

VARIABLES
    state,      \* the PropertyValuationState record of the run
    pc,         \* the node to run next, or "END", "raised", "returned"
    workflow,   \* the routing of the compiled workflow: Linear or Conditional
    nodes,      \* the node set it was compiled from: "mock" or "llm"
    entry,      \* the entry point that built the record and invoked the workflow
    initial,    \* the record as the entry point built it
    executed,   \* the nodes entered so far, in order
    fault,      \* the exception propagating out of workflow.invoke, if any
    response,   \* what the caller is handed: [by |-> producer, value |-> result]
    validation, \* the consumer's check of the envelope: [response, result], if made
    formatted   \* the outcome of formatting the payload for the mortgage agent

vars ==
    <<state, pc, workflow, nodes, entry, initial, executed, fault, response, validation,
      formatted>>

-----------------------------------------------------------------------------
(* Python values *)

None == <<>>

Some(v) == <<v>>

EmptyDict == <<>>

\* bool(x) of an Optional number: None and 0 are false
TruthyNum(o) == o # None /\ o[1] # 0

\* bool(x) of an Optional string: None and "" are false
TruthyStr(o) == o # None /\ o[1] # ""

\* bool(x) of an Optional dict: None and {} are false
TruthyDict(o) == o # None /\ DOMAIN o[1] # {}

\* str(x) of an Optional string inside an f-string
Format(o) == IF o = None THEN "None" ELSE o[1]

Max(a, b) == IF a >= b THEN a ELSE b

Min(a, b) == IF a <= b THEN a ELSE b

Abs(a) == IF a >= 0 THEN a ELSE -a

\* a money amount of n dollars, in 1/300 dollar
Dollars(n) == n * 300

\* v * p / 100 for a money amount v that is a multiple of 100 units
Percent(v, p) == (v \div 100) * p

-----------------------------------------------------------------------------
(* Inbound requests *)

\* the property values of the sampled requests
SampleSquareFootage == 2200

SampleBedrooms == 4

SampleHalfBaths == 5

SampleYearBuilt == 2010

SampleLotSize == 25

Addresses == {"123 Test St"}

PropertyTypes == {"single_family"}

SquareFootages == {None, Some(0), Some(SampleSquareFootage)}

BedroomCounts == {None, Some(SampleBedrooms)}

BathroomCounts == {None, Some(SampleHalfBaths)}

YearsBuilt == {None, Some(SampleYearBuilt)}

LotSizes == {Some(SampleLotSize)}

RequestIds == {"req-1"}

RequestingAgents == {"MortgageApproval"}

\* the mapping an entry point receives
Requests ==
    [property_address : Addresses, property_type : PropertyTypes,
     square_footage : SquareFootages, bedrooms : BedroomCounts,
     bathrooms : BathroomCounts, year_built : YearsBuilt, lot_size : LotSizes]

\* the record both entry points build before invoking the workflow
NewState(request_data, request_id, requesting_agent) ==
    [property_address |-> request_data.property_address,
     property_type |-> request_data.property_type,
     square_footage |-> request_data.square_footage,
     bedrooms |-> request_data.bedrooms,
     bathrooms |-> request_data.bathrooms,
     year_built |-> request_data.year_built,
     lot_size |-> request_data.lot_size,
     comparable_properties |-> <<>>,
     market_trends |-> EmptyDict,
     neighborhood_data |-> EmptyDict,
     estimated_value |-> None,
     confidence_level |-> None,
     valuation_range |-> None,
     comparable_analysis |-> EmptyDict,
     market_adjustment |-> EmptyDict,
     final_assessment |-> EmptyDict,
     current_step |-> "initialized",
     errors |-> <<>>,
     warnings |-> <<>>,
     request_id |-> request_id,
     requesting_agent |-> requesting_agent,
     response_data |-> None]

\* A2APropertyValuationClient.process_valuation_request: a fresh uuid, the caller's name
process_valuation_request_state(request_data, request_id, requesting_agent) ==
    NewState(request_data, Some(request_id), Some(requesting_agent))

\* run_standalone_valuation: no A2A fields
run_standalone_valuation_state(request_data) ==
    NewState(request_data, None, None)

-----------------------------------------------------------------------------
(* Node 1: data collection *)

required_fields == <<"square_footage", "bedrooms", "bathrooms", "year_built">>

missing_fields(s) == SelectSeq(required_fields, LAMBDA f : ~TruthyNum(s[f]))

\* mutant: each missing attribute costs 25 points
data_quality_score_quarter_each(missing) == Max(0, 100 - (Len(missing) * 25))

data_quality_score(missing) == Max(0, 100 - (Len(missing) * 20))

data_completeness(missing) ==
    IF Len(missing) = 0 THEN "COMPLETE"
    ELSE IF Len(missing) <= 2 THEN "PARTIAL"
    ELSE "INCOMPLETE"

\* mutant: a missing square footage is filled in with the assumed one
mock_property_data_collection_node_fills_square_footage(s) ==
    LET missing == missing_fields(s)
        s1 == [s EXCEPT !.current_step = "property_data_collected",
                        !.square_footage =
                            IF TruthyNum(@) THEN @ ELSE Some(2000)]
    IN  IF data_completeness(missing) = "INCOMPLETE"
        THEN [s1 EXCEPT !.errors =
                 Append(@, <<"Insufficient property data: missing", missing>>)]
        ELSE IF data_completeness(missing) = "PARTIAL"
        THEN [s1 EXCEPT !.warnings =
                 Append(@, <<"Some property data missing:", missing>>)]
        ELSE s1

mock_property_data_collection_node(s) ==
    LET missing == missing_fields(s)
        s1 == [s EXCEPT !.current_step = "property_data_collected"]
    IN  IF data_completeness(missing) = "INCOMPLETE"
        THEN [s1 EXCEPT !.errors =
                 Append(@, <<"Insufficient property data: missing", missing>>)]
        ELSE IF data_completeness(missing) = "PARTIAL"
        THEN [s1 EXCEPT !.warnings =
                 Append(@, <<"Some property data missing:", missing>>)]
        ELSE s1

\* mutant: the LLM-backed stage calls a record with two missing attributes INCOMPLETE
property_data_collection_node_strict(s) ==
    LET missing == SelectSeq(required_fields, LAMBDA f : ~TruthyNum(s[f]))
        completeness ==
            IF Len(missing) = 0 THEN "COMPLETE"
            ELSE IF Len(missing) <= 1 THEN "PARTIAL"
            ELSE "INCOMPLETE"
        s1 == [s EXCEPT !.current_step = "property_data_collected"]
    IN  IF completeness = "INCOMPLETE"
        THEN [s1 EXCEPT !.errors =
                 Append(@, <<"Insufficient property data: missing", missing>>)]
        ELSE IF completeness = "PARTIAL"
        THEN [s1 EXCEPT !.warnings =
                 Append(@, <<"Some property data missing:", missing>>)]
        ELSE s1

property_data_collection_node(s) ==
    LET missing == SelectSeq(required_fields, LAMBDA f : ~TruthyNum(s[f]))
        completeness ==
            IF Len(missing) = 0 THEN "COMPLETE"
            ELSE IF Len(missing) <= 2 THEN "PARTIAL"
            ELSE "INCOMPLETE"
        s1 == [s EXCEPT !.current_step = "property_data_collected"]
    IN  IF completeness = "INCOMPLETE"
        THEN [s1 EXCEPT !.errors =
                 Append(@, <<"Insufficient property data: missing", missing>>)]
        ELSE IF completeness = "PARTIAL"
        THEN [s1 EXCEPT !.warnings =
                 Append(@, <<"Some property data missing:", missing>>)]
        ELSE s1

-----------------------------------------------------------------------------
(* Node 2: comparable properties *)

BasePrice1 == 450000

BasePrice2 == 475000

BasePrice3 == 435000

PriceSpread1 == 50000

PriceSpread2 == 50000

PriceSpread3 == 40000

AssumedSquareFootage == 2000

\* random.randint(-spread, spread), on its two ends (and a draw between, for the third)
PriceDraws1 == {-PriceSpread1, PriceSpread1}

PriceDraws2 == {-PriceSpread2, PriceSpread2}

PriceDraws3 == {-PriceSpread3, PriceSpread3 \div 2, PriceSpread3}

\* random.randint(-200, 200), (-300, 300), (-250, 250)
SqftDraws1 == {200}

SqftDraws2 == {-300}

SqftDraws3 == {250}

\* random.randint(-1, 1)
BedroomDraws == {-1, 1}

\* random.randint(15, 60), (10, 45), (20, 80)
DaysOnMarketDraws1 == {15}

DaysOnMarketDraws2 == {45}

DaysOnMarketDraws3 == {20}

ComparableDraws ==
    [price1 : PriceDraws1, price2 : PriceDraws2, price3 : PriceDraws3,
     sqft1 : SqftDraws1, sqft2 : SqftDraws2, sqft3 : SqftDraws3,
     bed2 : BedroomDraws,
     dom1 : DaysOnMarketDraws1, dom2 : DaysOnMarketDraws2, dom3 : DaysOnMarketDraws3]

\* The key is always in the record, so state.get(key, default) is the stored
\* value, None included; None + number raises TypeError while the list is built.
comparables_type_error(s) ==
    IF s.square_footage = None \/ s.bedrooms = None
    THEN "unsupported operand type(s) for +: 'NoneType' and 'int'"
    ELSE "unsupported operand type(s) for +: 'NoneType' and 'float'"

comparables_raise(s) ==
    s.square_footage = None \/ s.bedrooms = None \/ s.bathrooms = None

RECURSIVE sum_sold_price(_)
sum_sold_price(comps) ==
    IF comps = <<>> THEN 0
    ELSE Head(comps).sold_price + sum_sold_price(Tail(comps))

mock_comparables(s, d) ==
    LET base_sqft == s.square_footage[1]
    IN  << [address |-> "123 Similar St, Same City",
            sold_price |-> Dollars(BasePrice1 + d.price1),
            square_footage |-> base_sqft + d.sqft1,
            bedrooms |-> s.bedrooms[1],
            bathrooms |-> s.bathrooms[1],
            sale_date |-> "2024-10-15",
            days_on_market |-> d.dom1],
           [address |-> "456 Nearby Ave, Same City",
            sold_price |-> Dollars(BasePrice2 + d.price2),
            square_footage |-> base_sqft + d.sqft2,
            bedrooms |-> s.bedrooms[1] + d.bed2,
            bathrooms |-> s.bathrooms[1],
            sale_date |-> "2024-11-02",
            days_on_market |-> d.dom2],
           [address |-> "789 Close Blvd, Same City",
            sold_price |-> Dollars(BasePrice3 + d.price3),
            square_footage |-> base_sqft + d.sqft3,
            bedrooms |-> s.bedrooms[1],
            bathrooms |-> s.bathrooms[1] + 1,
            sale_date |-> "2024-09-28",
            days_on_market |-> d.dom3] >>

mock_comparable_analysis(s, comparable_properties) ==
    LET avg_price == sum_sold_price(comparable_properties) \div Len(comparable_properties)
        avg_price_per_sqft ==
            IF TruthyNum(s.square_footage)
            THEN [num |-> avg_price, den |-> s.square_footage[1]]
            ELSE [num |-> avg_price, den |-> AssumedSquareFootage]
    IN  [number_of_comparables |-> Len(comparable_properties),
         average_sale_price |-> avg_price,
         price_per_square_foot |-> avg_price_per_sqft,
         comparable_quality |-> "GOOD",
         price_range_low |-> Percent(avg_price, 90),
         price_range_high |-> Percent(avg_price, 110)]

\* mutant: the comparable average is stored as the estimate already
mock_comparable_properties_node_sets_estimate(s, d) ==
    LET comparable_properties == mock_comparables(s, d)
        comparable_analysis == mock_comparable_analysis(s, comparable_properties)
    IN  [s EXCEPT !.comparable_properties = comparable_properties,
                  !.comparable_analysis = comparable_analysis,
                  !.estimated_value = Some(comparable_analysis.average_sale_price),
                  !.current_step = "comparables_analyzed"]

\* defined when ~comparables_raise(s)
mock_comparable_properties_node(s, d) ==
    LET comparable_properties == mock_comparables(s, d)
    IN  [s EXCEPT !.comparable_properties = comparable_properties,
                  !.comparable_analysis = mock_comparable_analysis(s, comparable_properties),
                  !.current_step = "comparables_analyzed"]

\* defined when ~comparables_raise(s)
comparable_properties_node(s, d) ==
    LET comparable_properties ==
            << [address |-> "123 Similar St, Same City",
                sold_price |-> Dollars(BasePrice1 + d.price1),
                square_footage |-> s.square_footage[1] + d.sqft1,
                bedrooms |-> s.bedrooms[1],
                bathrooms |-> s.bathrooms[1],
                sale_date |-> "2024-10-15",
                days_on_market |-> d.dom1],
               [address |-> "456 Nearby Ave, Same City",
                sold_price |-> Dollars(BasePrice2 + d.price2),
                square_footage |-> s.square_footage[1] + d.sqft2,
                bedrooms |-> s.bedrooms[1] + d.bed2,
                bathrooms |-> s.bathrooms[1],
                sale_date |-> "2024-11-02",
                days_on_market |-> d.dom2],
               [address |-> "789 Close Blvd, Same City",
                sold_price |-> Dollars(BasePrice3 + d.price3),
                square_footage |-> s.square_footage[1] + d.sqft3,
                bedrooms |-> s.bedrooms[1],
                bathrooms |-> s.bathrooms[1] + 1,
                sale_date |-> "2024-09-28",
                days_on_market |-> d.dom3] >>
        avg_price == sum_sold_price(comparable_properties) \div Len(comparable_properties)
        avg_price_per_sqft ==
            IF TruthyNum(s.square_footage)
            THEN [num |-> avg_price, den |-> s.square_footage[1]]
            ELSE [num |-> avg_price, den |-> AssumedSquareFootage]
    IN  [s EXCEPT !.comparable_properties = comparable_properties,
                  !.comparable_analysis =
                      [number_of_comparables |-> Len(comparable_properties),
                       average_sale_price |-> avg_price,
                       price_per_square_foot |-> avg_price_per_sqft,
                       comparable_quality |-> "GOOD",
                       price_range_low |-> Percent(avg_price, 90),
                       price_range_high |-> Percent(avg_price, 110)],
                  !.current_step = "comparables_analyzed"]

-----------------------------------------------------------------------------
(* Node 3: market analysis *)

MarketDirections == {"RISING", "STABLE", "DECLINING"}

InventoryLevels == {"LOW", "MODERATE", "HIGH"}

BuyerDemands == {"HIGH", "MODERATE", "LOW"}

MinSchoolRating == 6

MaxSchoolRating == 10

SchoolRatings == MinSchoolRating..MaxSchoolRating

\* round(random.uniform(-5.0, 8.0), 2), in hundredths of a percent
PriceChangeDraws == {250}

\* random.randint(25, 65)
AverageDaysOnMarketDraws == {40}

CrimeRates == {"LOW"}

\* random.randint(40, 95)
WalkabilityDraws == {70}

TransportationAccesses == {"GOOD"}

MarketDraws ==
    [market_direction : MarketDirections,
     price_change_6_months : PriceChangeDraws,
     average_days_on_market : AverageDaysOnMarketDraws,
     inventory_level : InventoryLevels,
     buyer_demand : BuyerDemands,
     school_rating : SchoolRatings,
     crime_rate : CrimeRates,
     walkability_score : WalkabilityDraws,
     transportation_access : TransportationAccesses]

AdjustmentFloor == -20

AdjustmentCeiling == 20

market_trends_of(d) ==
    [market_direction |-> d.market_direction,
     price_change_6_months |-> d.price_change_6_months,
     average_days_on_market |-> d.average_days_on_market,
     inventory_level |-> d.inventory_level,
     buyer_demand |-> d.buyer_demand]

neighborhood_data_of(d) ==
    [school_rating |-> d.school_rating,
     crime_rate |-> d.crime_rate,
     walkability_score |-> d.walkability_score,
     nearby_amenities |-> <<"shopping", "parks", "restaurants">>,
     transportation_access |-> d.transportation_access]

\* mutant: a high inventory raises the value, a low one lowers it
mock_market_adjustment_factors_inventory_inverted(market_trends, neighborhood_data) ==
    [trend_adjustment |->
        IF market_trends.market_direction = "RISING" THEN 2
        ELSE IF market_trends.market_direction = "DECLINING" THEN -2 ELSE 0,
     demand_adjustment |->
        IF market_trends.buyer_demand = "HIGH" THEN 3
        ELSE IF market_trends.buyer_demand = "LOW" THEN -3 ELSE 0,
     inventory_adjustment |->
        IF market_trends.inventory_level = "HIGH" THEN 2
        ELSE IF market_trends.inventory_level = "LOW" THEN -2 ELSE 0,
     neighborhood_adjustment |->
        IF neighborhood_data.school_rating >= 9 THEN 5
        ELSE IF neighborhood_data.school_rating >= 7 THEN 2 ELSE -2]

mock_market_adjustment_factors(market_trends, neighborhood_data) ==
    [trend_adjustment |->
        IF market_trends.market_direction = "RISING" THEN 2
        ELSE IF market_trends.market_direction = "DECLINING" THEN -2 ELSE 0,
     demand_adjustment |->
        IF market_trends.buyer_demand = "HIGH" THEN 3
        ELSE IF market_trends.buyer_demand = "LOW" THEN -3 ELSE 0,
     inventory_adjustment |->
        IF market_trends.inventory_level = "HIGH" THEN -2
        ELSE IF market_trends.inventory_level = "LOW" THEN 2 ELSE 0,
     neighborhood_adjustment |->
        IF neighborhood_data.school_rating >= 9 THEN 5
        ELSE IF neighborhood_data.school_rating >= 7 THEN 2 ELSE -2]

\* sum(market_adjustment_factors.values())
total_of(factors) ==
    factors.trend_adjustment + factors.demand_adjustment
        + factors.inventory_adjustment + factors.neighborhood_adjustment

\* mutant: stores the multiplier (100 + adjustment) in place of the adjustment
mock_total_adjustment_percent_as_multiplier(total_market_adjustment) ==
    100 + Max(AdjustmentFloor, Min(AdjustmentCeiling, total_market_adjustment))

mock_total_adjustment_percent(total_market_adjustment) ==
    Max(AdjustmentFloor, Min(AdjustmentCeiling, total_market_adjustment))

mock_market_confidence(total_market_adjustment) ==
    IF Abs(total_market_adjustment) <= 5 THEN "HIGH"
    ELSE IF Abs(total_market_adjustment) <= 10 THEN "MEDIUM"
    ELSE "LOW"

\* mutant: the stage does not stamp its marker
mock_market_analysis_node_keeps_step(s, d) ==
    LET market_trends == market_trends_of(d)
        neighborhood_data == neighborhood_data_of(d)
        factors == mock_market_adjustment_factors(market_trends, neighborhood_data)
        total_market_adjustment == total_of(factors)
    IN  [s EXCEPT !.market_trends = market_trends,
                  !.neighborhood_data = neighborhood_data,
                  !.market_adjustment =
                      [adjustment_factors |-> factors,
                       total_adjustment_percent |->
                           mock_total_adjustment_percent(total_market_adjustment),
                       market_confidence |->
                           mock_market_confidence(total_market_adjustment)]]

mock_market_analysis_node(s, d) ==
    LET market_trends == market_trends_of(d)
        neighborhood_data == neighborhood_data_of(d)
        factors == mock_market_adjustment_factors(market_trends, neighborhood_data)
        total_market_adjustment == total_of(factors)
    IN  [s EXCEPT !.market_trends = market_trends,
                  !.neighborhood_data = neighborhood_data,
                  !.market_adjustment =
                      [adjustment_factors |-> factors,
                       total_adjustment_percent |->
                           mock_total_adjustment_percent(total_market_adjustment),
                       market_confidence |->
                           mock_market_confidence(total_market_adjustment)],
                  !.current_step = "market_analyzed"]

market_analysis_node(s, d) ==
    LET market_trends == market_trends_of(d)
        neighborhood_data == neighborhood_data_of(d)
        factors ==
            [trend_adjustment |->
                IF market_trends.market_direction = "RISING" THEN 2
                ELSE IF market_trends.market_direction = "DECLINING" THEN -2 ELSE 0,
             demand_adjustment |->
                IF market_trends.buyer_demand = "HIGH" THEN 3
                ELSE IF market_trends.buyer_demand = "LOW" THEN -3 ELSE 0,
             inventory_adjustment |->
                IF market_trends.inventory_level = "HIGH" THEN -2
                ELSE IF market_trends.inventory_level = "LOW" THEN 2 ELSE 0,
             neighborhood_adjustment |->
                IF neighborhood_data.school_rating >= 9 THEN 5
                ELSE IF neighborhood_data.school_rating >= 7 THEN 2 ELSE -2]
        total_market_adjustment == total_of(factors)
    IN  [s EXCEPT !.market_trends = market_trends,
                  !.neighborhood_data = neighborhood_data,
                  !.market_adjustment =
                      [adjustment_factors |-> factors,
                       total_adjustment_percent |->
                           Max(AdjustmentFloor, Min(AdjustmentCeiling, total_market_adjustment)),
                       market_confidence |->
                           IF Abs(total_market_adjustment) <= 5 THEN "HIGH"
                           ELSE IF Abs(total_market_adjustment) <= 10 THEN "MEDIUM"
                           ELSE "LOW"],
                  !.current_step = "market_analyzed"]

-----------------------------------------------------------------------------
(* Node 4: final valuation *)

\* state['comparable_analysis']['average_sale_price'] and
\* state['market_adjustment']['total_adjustment_percent'] raise KeyError on {}
final_valuation_raises(s) ==
    \/ "average_sale_price" \notin DOMAIN s.comparable_analysis
    \/ "total_adjustment_percent" \notin DOMAIN s.market_adjustment

final_valuation_key_error(s) ==
    IF "average_sale_price" \notin DOMAIN s.comparable_analysis
    THEN "'average_sale_price'"
    ELSE "'total_adjustment_percent'"

\* mutant: the adjustment percentage alone, without the 1 +
mock_market_adjusted_value_without_base(base_value, market_adjustment_percent) ==
    Percent(base_value, market_adjustment_percent)

\* base_value * (1 + market_adjustment_percent / 100)
mock_market_adjusted_value(base_value, market_adjustment_percent) ==
    Percent(base_value, 100 + market_adjustment_percent)

\* mutant: an adjustment of exactly 10 percent counts as volatile
mock_data_quality_factors_volatile_at_ten(s, market_adjustment_percent) ==
    (IF ~TruthyNum(s.square_footage) THEN <<"Missing square footage">> ELSE <<>>)
    \o (IF Len(s.comparable_properties) < 3 THEN <<"Limited comparables">> ELSE <<>>)
    \o (IF Abs(market_adjustment_percent) >= 10 THEN <<"High market volatility">> ELSE <<>>)

mock_data_quality_factors(s, market_adjustment_percent) ==
    (IF ~TruthyNum(s.square_footage) THEN <<"Missing square footage">> ELSE <<>>)
    \o (IF Len(s.comparable_properties) < 3 THEN <<"Limited comparables">> ELSE <<>>)
    \o (IF Abs(market_adjustment_percent) > 10 THEN <<"High market volatility">> ELSE <<>>)

\* mutant: the MEDIUM tier takes two flags as well
mock_confidence_level_two_flags_medium(data_quality_factors) ==
    IF Len(data_quality_factors) = 0 THEN "HIGH"
    ELSE IF Len(data_quality_factors) <= 2 THEN "MEDIUM"
    ELSE "LOW"

mock_confidence_level(data_quality_factors) ==
    IF Len(data_quality_factors) = 0 THEN "HIGH"
    ELSE IF Len(data_quality_factors) <= 1 THEN "MEDIUM"
    ELSE "LOW"

\* mutant: a MEDIUM valuation scores 75
mock_confidence_score_medium_higher(data_quality_factors) ==
    IF Len(data_quality_factors) = 0 THEN 85
    ELSE IF Len(data_quality_factors) <= 1 THEN 75
    ELSE 55

mock_confidence_score(data_quality_factors) ==
    IF Len(data_quality_factors) = 0 THEN 85
    ELSE IF Len(data_quality_factors) <= 1 THEN 70
    ELSE 55

\* range_factor, in percent
mock_range_factor(confidence_level) ==
    IF confidence_level = "HIGH" THEN 5
    ELSE IF confidence_level = "MEDIUM" THEN 10
    ELSE 15

mock_valuation_range(market_adjusted_value, range_factor) ==
    [min_value |-> Percent(market_adjusted_value, 100 - range_factor),
     max_value |-> Percent(market_adjusted_value, 100 + range_factor)]

\* defined when ~final_valuation_raises(s)
mock_final_valuation_node(s) ==
    LET base_value == s.comparable_analysis.average_sale_price
        market_adjustment_percent == s.market_adjustment.total_adjustment_percent
        market_adjusted_value ==
            mock_market_adjusted_value(base_value, market_adjustment_percent)
        data_quality_factors == mock_data_quality_factors(s, market_adjustment_percent)
        confidence_level == mock_confidence_level(data_quality_factors)
        confidence_score == mock_confidence_score(data_quality_factors)
        valuation_range ==
            mock_valuation_range(market_adjusted_value, mock_range_factor(confidence_level))
        final_assessment ==
            [base_value |-> base_value,
             market_adjustment_percent |-> market_adjustment_percent,
             estimated_value |-> market_adjusted_value,
             confidence_score |-> confidence_score,
             valuation_method |-> "SALES_COMPARISON_APPROACH",
             key_value_drivers |-> <<"Comparable sales analysis",
                                     "Current market conditions",
                                     "Neighborhood characteristics">>,
             limitations |-> data_quality_factors]
        response_data ==
            [property_address |-> s.property_address,
             estimated_value |-> Some(market_adjusted_value),
             valuation_range |-> Some(valuation_range),
             confidence_level |-> Some(confidence_level),
             confidence_score |-> confidence_score,
             valuation_date |-> Some("2024-12-15"),
             appraiser_notes |->
                 <<"Mock valuation based on {} comparable sales with {}% market adjustment",
                   <<Len(s.comparable_properties), market_adjustment_percent>> >>]
    IN  [s EXCEPT !.estimated_value = Some(market_adjusted_value),
                  !.confidence_level = Some(confidence_level),
                  !.valuation_range = Some(valuation_range),
                  !.final_assessment = final_assessment,
                  !.response_data = Some(response_data),
                  !.current_step = "valuation_completed"]

\* defined when ~final_valuation_raises(s)
final_valuation_node(s) ==
    LET base_value == s.comparable_analysis.average_sale_price
        market_adjustment_percent == s.market_adjustment.total_adjustment_percent
        market_adjusted_value == Percent(base_value, 100 + market_adjustment_percent)
        data_quality_factors ==
            (IF ~TruthyNum(s.square_footage) THEN <<"Missing square footage">> ELSE <<>>)
            \o (IF Len(s.comparable_properties) < 3 THEN <<"Limited comparables">> ELSE <<>>)
            \o (IF Abs(market_adjustment_percent) > 10
                THEN <<"High market volatility">> ELSE <<>>)
        confidence_level ==
            IF Len(data_quality_factors) = 0 THEN "HIGH"
            ELSE IF Len(data_quality_factors) <= 1 THEN "MEDIUM"
            ELSE "LOW"
        confidence_score ==
            IF Len(data_quality_factors) = 0 THEN 85
            ELSE IF Len(data_quality_factors) <= 1 THEN 70
            ELSE 55
        range_factor ==
            IF confidence_level = "HIGH" THEN 5
            ELSE IF confidence_level = "MEDIUM" THEN 10
            ELSE 15
        valuation_range ==
            [min_value |-> Percent(market_adjusted_value, 100 - range_factor),
             max_value |-> Percent(market_adjusted_value, 100 + range_factor)]
        final_assessment ==
            [base_value |-> base_value,
             market_adjustment_percent |-> market_adjustment_percent,
             estimated_value |-> market_adjusted_value,
             confidence_score |-> confidence_score,
             valuation_method |-> "SALES_COMPARISON_APPROACH",
             key_value_drivers |-> <<"Comparable sales analysis",
                                     "Current market conditions",
                                     "Neighborhood characteristics">>,
             limitations |-> data_quality_factors]
        response_data ==
            [property_address |-> s.property_address,
             estimated_value |-> Some(market_adjusted_value),
             valuation_range |-> Some(valuation_range),
             confidence_level |-> Some(confidence_level),
             confidence_score |-> confidence_score,
             valuation_date |-> Some("2024-12-15"),
             appraiser_notes |->
                 <<"Valuation based on {} comparable sales with {}% market adjustment",
                   <<Len(s.comparable_properties), market_adjustment_percent>> >>]
    IN  [s EXCEPT !.estimated_value = Some(market_adjusted_value),
                  !.confidence_level = Some(confidence_level),
                  !.valuation_range = Some(valuation_range),
                  !.final_assessment = final_assessment,
                  !.response_data = Some(response_data),
                  !.current_step = "valuation_completed"]

-----------------------------------------------------------------------------
(* Node 5: agent-to-agent communication *)

mock_dispatch_warning(s) ==
    <<"Mock response sent to {} for request {}",
      <<s.requesting_agent[1], Format(s.request_id)>> >>

\* mutant: assigns a fresh warning list in place of appending to the record's
mock_a2a_communication_node_resets_warnings(s) ==
    IF TruthyStr(s.requesting_agent) /\ TruthyDict(s.response_data)
    THEN [s EXCEPT !.current_step = "a2a_response_sent",
                   !.warnings = <<mock_dispatch_warning(s)>>]
    ELSE [s EXCEPT !.current_step = "valuation_ready_for_use"]

\* mutant: logs a response whenever there is a requesting agent, payload or not
mock_a2a_communication_node_ignores_payload(s) ==
    IF TruthyStr(s.requesting_agent)
    THEN [s EXCEPT !.current_step = "a2a_response_sent",
                   !.warnings = Append(@, mock_dispatch_warning(s))]
    ELSE [s EXCEPT !.current_step = "valuation_ready_for_use"]

mock_a2a_communication_node(s) ==
    IF TruthyStr(s.requesting_agent) /\ TruthyDict(s.response_data)
    THEN [s EXCEPT !.current_step = "a2a_response_sent",
                   !.warnings = Append(@, mock_dispatch_warning(s))]
    ELSE [s EXCEPT !.current_step = "valuation_ready_for_use"]

a2a_communication_node(s) ==
    IF TruthyStr(s.requesting_agent) /\ TruthyDict(s.response_data)
    THEN [s EXCEPT !.current_step = "a2a_response_sent",
                   !.warnings =
                       Append(@, <<"Response sent to {} for request {}",
                                   <<s.requesting_agent[1], Format(s.request_id)>> >>)]
    ELSE [s EXCEPT !.current_step = "valuation_ready_for_use"]

\* the node calls the language model only on this branch
a2a_communication_calls_llm(s) ==
    TruthyStr(s.requesting_agent) /\ TruthyDict(s.response_data)

-----------------------------------------------------------------------------
(* Compiled workflows: the edges between the nodes *)

Linear == "linear"

Conditional == "conditional"

\* mutant: the edge out of comparables goes to final_valuation
linear_edge_skips_market_analysis(node) ==
    CASE node = "data_collection" -> "comparables"
      [] node = "comparables" -> "final_valuation"
      [] node = "market_analysis" -> "final_valuation"
      [] node = "final_valuation" -> "a2a_communication"
      [] node = "a2a_communication" -> "END"

\* create_mock_property_valuation_workflow: add_edge(node, next)
linear_edge(node) ==
    CASE node = "data_collection" -> "comparables"
      [] node = "comparables" -> "market_analysis"
      [] node = "market_analysis" -> "final_valuation"
      [] node = "final_valuation" -> "a2a_communication"
      [] node = "a2a_communication" -> "END"

\* mutant: the route after data collection ignores the error log
should_continue_after_data_collection_always_continues(s) == "comparables"

should_continue_after_data_collection(s) ==
    IF Len(s.errors) > 0 THEN "a2a_communication" ELSE "comparables"

\* mutant: the warning is appended whatever the quality
should_continue_after_comparables_always_warns(s) ==
    [s EXCEPT !.warnings = Append(@, <<"Limited comparable data available", <<>> >>)]

\* the edge function appends to the record it is given, then returns "market_analysis"
should_continue_after_comparables(s) ==
    IF s.comparable_analysis.comparable_quality = "POOR"
    THEN [s EXCEPT !.warnings = Append(@, <<"Limited comparable data available", <<>> >>)]
    ELSE s

\* mutant: the conditional wiring leaves FinalValuation out
conditional_edge_skips_final_valuation(node, s) ==
    CASE node = "data_collection" -> should_continue_after_data_collection(s)
      [] node = "comparables" -> "market_analysis"
      [] node = "market_analysis" -> "a2a_communication"
      [] node = "final_valuation" -> "a2a_communication"
      [] node = "a2a_communication" -> "END"

\* create_mock_conditional_property_valuation_workflow: the node that follows
conditional_edge(node, s) ==
    CASE node = "data_collection" -> should_continue_after_data_collection(s)
      [] node = "comparables" -> "market_analysis"
      [] node = "market_analysis" -> "final_valuation"
      [] node = "final_valuation" -> "a2a_communication"
      [] node = "a2a_communication" -> "END"

\* the record after the edge functions that follow `node` have run on it
after_edges(wf, node, s) ==
    IF wf = Conditional /\ node = "comparables"
    THEN should_continue_after_comparables(s)
    ELSE s

next_node(wf, node, s) ==
    IF wf = Conditional THEN conditional_edge(node, s) ELSE linear_edge(node)

-----------------------------------------------------------------------------
(* Faults and error handling *)

TypeError(message) == [type |-> "TypeError", message |-> message, error_code |-> ""]

KeyError(message) == [type |-> "KeyError", message |-> message, error_code |-> ""]

AttributeError(message) ==
    [type |-> "AttributeError", message |-> message, error_code |-> ""]

\* what llm.invoke (an external call) raises when it fails
LLMErrors ==
    {[type |-> "Exception", message |-> "language model call failed", error_code |-> ""]}

failed_step(node_name) ==
    CASE node_name = "data_collection" -> "data_collection_failed"
      [] node_name = "comparables" -> "comparables_failed"
      [] node_name = "market_analysis" -> "market_analysis_failed"
      [] node_name = "final_valuation" -> "final_valuation_failed"
      [] node_name = "a2a_communication" -> "a2a_communication_failed"

NonRecoverableCodes == {"INVALID_PROPERTY", "API_FAILURE", "CONFIGURATION_ERROR"}

handle_node_error(s, node_name, error) ==
    LET error_message == <<"Error in {}: {}", <<node_name, error.message>> >>
        s1 == [s EXCEPT !.errors = Append(@, error_message),
                        !.current_step = failed_step(node_name)]
    IN  IF error.type = "PropertyValuationError" /\ error.error_code \in NonRecoverableCodes
        THEN [s1 EXCEPT !.current_step = "workflow_failed"]
        ELSE s1

\* a transport error is the set of these words its lower-cased message contains
TransportKeywords == {"timeout", "authentication", "credentials", "network", "connection"}

TransportErrors == SUBSET TransportKeywords

\* mutant: the network branch is tested before the timeout branch
handle_a2a_error_network_first(error, request_id) ==
    [status |-> "ERROR",
     error_code |->
        IF "network" \in error \/ "connection" \in error THEN "A2A_NETWORK_ERROR"
        ELSE IF "timeout" \in error THEN "A2A_TIMEOUT"
        ELSE IF "authentication" \in error \/ "credentials" \in error THEN "A2A_AUTH_ERROR"
        ELSE "A2A_COMMUNICATION_ERROR",
     error_message |-> error,
     request_id |-> request_id,
     agent |-> "PropertyValuation",
     data |-> None]

handle_a2a_error(error, request_id) ==
    [status |-> "ERROR",
     error_code |->
        IF "timeout" \in error THEN "A2A_TIMEOUT"
        ELSE IF "authentication" \in error \/ "credentials" \in error THEN "A2A_AUTH_ERROR"
        ELSE IF "network" \in error \/ "connection" \in error THEN "A2A_NETWORK_ERROR"
        ELSE "A2A_COMMUNICATION_ERROR",
     error_message |-> error,
     request_id |-> request_id,
     agent |-> "PropertyValuation",
     data |-> None]

\* state.get('confidence_score', 0): the record has no such key unless a node wrote one
state_get_confidence_score(s) ==
    IF "confidence_score" \in DOMAIN s THEN s.confidence_score ELSE 0

create_safe_response(s) ==
    LET partial == TruthyNum(s.estimated_value)
        response_data ==
            [property_address |-> s.property_address,
             estimated_value |-> IF partial THEN s.estimated_value ELSE None,
             confidence_level |-> IF partial THEN s.confidence_level ELSE Some("LOW"),
             confidence_score |-> IF partial THEN state_get_confidence_score(s) ELSE 0,
             valuation_range |-> IF partial THEN s.valuation_range ELSE None,
             valuation_date |-> None,
             appraiser_notes |->
                 <<"Valuation could not be completed due to system error", <<>> >>]
    IN  [status |-> IF TruthyNum(response_data.estimated_value)
                    THEN "PARTIAL_SUCCESS" ELSE "ERROR",
         agent |-> "PropertyValuation",
         data |-> Some(response_data),
         errors |-> s.errors,
         warnings |-> s.warnings]

-----------------------------------------------------------------------------
(* Entry points: the outer boundary around workflow.invoke *)

ProcessValuationRequest == "process_valuation_request"

RunStandaloneValuation == "run_standalone_valuation"

\* A2APropertyValuationClient.__init__
agent_name(backend) ==
    IF backend = "mock" THEN "PropertyValuation (Mock)" ELSE "PropertyValuation"

\* mutant: the envelope's data is the appraiser's assessment, not the payload
process_valuation_request_success_sends_assessment(result, request_id, backend) ==
    [status |-> "SUCCESS",
     request_id |-> request_id,
     agent |-> agent_name(backend),
     data |-> Some(result.final_assessment),
     errors |-> result.errors,
     warnings |-> result.warnings]

process_valuation_request_success(result, request_id, backend) ==
    [status |-> "SUCCESS",
     request_id |-> request_id,
     agent |-> agent_name(backend),
     data |-> result.response_data,
     errors |-> result.errors,
     warnings |-> result.warnings]

process_valuation_request_error(e, request_id, backend) ==
    [status |-> "ERROR",
     request_id |-> request_id,
     agent |-> agent_name(backend),
     error_message |-> e.message,
     data |-> None]

\* the prints format result['estimated_value'] with ":,.0f", a TypeError on None
\* that the function's own except clause turns into {"error": ...}
run_standalone_valuation_success(result) ==
    IF result.estimated_value = None
    THEN [error |-> "unsupported format string passed to NoneType.__format__"]
    ELSE [result |-> result]

run_standalone_valuation_error(e) == [error |-> e.message]

\* the values that are response envelopes, by the function that built them
EnvelopeProducers == {ProcessValuationRequest, "create_safe_response", "handle_a2a_error"}

-----------------------------------------------------------------------------
(* The consumer of an envelope: A2ACommunicationHandler *)

\* the outcome of a call: the value it returns or the exception it raises
Returns(v) == [returns |-> Some(v), raises |-> None]

Raises(e) == [returns |-> None, raises |-> Some(e)]

a2a_required_fields == {"status", "request_id", "agent"}

required_data_fields == {"estimated_value", "confidence_level", "valuation_range"}

\* response.get('data', {}): the stored value (None included), {} without the key
response_get_data(r) == IF "data" \in DOMAIN r THEN r.data ELSE Some(EmptyDict)

\* mutant: the data of a SUCCESS envelope is not looked at
validate_a2a_response_ignores_data(r) ==
    Returns(a2a_required_fields \subseteq DOMAIN r)

\* "all(... in response ...) and all(... in data ...)": the second operand is
\* evaluated only when the first is true, and "field in None" raises TypeError
validate_a2a_response(r) ==
    IF "status" \in DOMAIN r /\ r.status = "SUCCESS"
    THEN IF ~(a2a_required_fields \subseteq DOMAIN r) THEN Returns(FALSE)
         ELSE IF response_get_data(r) = None
         THEN Raises(TypeError("argument of type 'NoneType' is not iterable"))
         ELSE Returns(required_data_fields \subseteq DOMAIN response_get_data(r)[1])
    ELSE Returns(a2a_required_fields \subseteq DOMAIN r)

\* the mapping with the keys of fields that hold Some(v), each with its v
envelope_of(fields) ==
    [k \in {f \in DOMAIN fields : fields[f] # None} |-> fields[k][1]]

\* envelopes an agent can be sent: each key present or not, data null or a dict
ReceivedStatuses == {None, Some("SUCCESS"), Some("ERROR")}

ReceivedRequestIds == {None, Some(Some("req-1"))}

ReceivedAgents == {None, Some("PropertyValuation")}

ReceivedData ==
    {None, Some(None)}
        \cup {Some(Some([k \in ks |-> "value"])) : ks \in SUBSET required_data_fields}

ReceivedEnvelopes ==
    {envelope_of([status |-> s, request_id |-> i, agent |-> a, data |-> d]) :
        s \in ReceivedStatuses, i \in ReceivedRequestIds,
        a \in ReceivedAgents, d \in ReceivedData}

\* dict.get(key, default)
dict_get(d, key, default) == IF key \in DOMAIN d THEN d[key] ELSE default

\* mutant: a confidence score of exactly 70 counts as a stable market
format_response_for_mortgage_agent_stable_at_seventy(valuation_data) ==
    [property_valuation |->
        [estimated_value |-> dict_get(valuation_data, "estimated_value", None),
         confidence_level |-> dict_get(valuation_data, "confidence_level", None),
         confidence_score |-> dict_get(valuation_data, "confidence_score", None),
         valuation_range |-> dict_get(valuation_data, "valuation_range", EmptyDict),
         appraisal_date |-> dict_get(valuation_data, "valuation_date", None),
         appraiser_notes |-> dict_get(valuation_data, "appraiser_notes", None)],
     loan_to_value_calculation |->
        [estimated_value |-> dict_get(valuation_data, "estimated_value", None),
         ltv_ready |-> TRUE],
     valuation_flags |->
        [high_confidence |->
            dict_get(valuation_data, "confidence_level", None) = Some("HIGH"),
         market_stable |-> dict_get(valuation_data, "confidence_score", 0) >= 70,
         comparable_data_sufficient |-> TRUE]]

format_response_for_mortgage_agent(valuation_data) ==
    [property_valuation |->
        [estimated_value |-> dict_get(valuation_data, "estimated_value", None),
         confidence_level |-> dict_get(valuation_data, "confidence_level", None),
         confidence_score |-> dict_get(valuation_data, "confidence_score", None),
         valuation_range |-> dict_get(valuation_data, "valuation_range", EmptyDict),
         appraisal_date |-> dict_get(valuation_data, "valuation_date", None),
         appraiser_notes |-> dict_get(valuation_data, "appraiser_notes", None)],
     loan_to_value_calculation |->
        [estimated_value |-> dict_get(valuation_data, "estimated_value", None),
         ltv_ready |-> TRUE],
     valuation_flags |->
        [high_confidence |->
            dict_get(valuation_data, "confidence_level", None) = Some("HIGH"),
         market_stable |-> dict_get(valuation_data, "confidence_score", 0) > 70,
         comparable_data_sufficient |-> TRUE]]

\* the call on response['data']: a null payload has no "get"
format_response_for_mortgage_agent_call(data) ==
    IF data = None
    THEN Raises(AttributeError("'NoneType' object has no attribute 'get'"))
    ELSE Returns(format_response_for_mortgage_agent(data[1]))

\* A2ACommunicationHandler.create_property_valuation_request: the request the
\* mortgage agent sends, built from the property information it holds
create_property_valuation_request(property_info) ==
    [request_type |-> "PROPERTY_VALUATION",
     property_address |-> property_info.property_address,
     property_type |-> property_info.property_type,
     square_footage |-> property_info.square_footage,
     bedrooms |-> property_info.bedrooms,
     bathrooms |-> property_info.bathrooms,
     year_built |-> property_info.year_built,
     lot_size |-> property_info.lot_size,
     requesting_context |-> "MORTGAGE_APPROVAL",
     urgency |-> "STANDARD",
     required_confidence |-> "MEDIUM"]

-----------------------------------------------------------------------------
(* The state machine *)

\* the compiled workflows, as (routing, node set)
create_mock_property_valuation_workflow == <<Linear, "mock">>

create_mock_conditional_property_valuation_workflow == <<Conditional, "mock">>

\* graph.create_property_valuation_workflow: the five nodes of nodes.py wired as
\* the baseline policy, DataIntake -> ... -> ResponseDispatch -> terminal
create_property_valuation_workflow == <<Linear, "llm">>

\* A2APropertyValuationClient.__init__: the workflows the client compiles
ClientWorkflows ==
    {create_mock_property_valuation_workflow, create_property_valuation_workflow}

Workflows ==
    {create_mock_property_valuation_workflow,
     create_mock_conditional_property_valuation_workflow,
     create_property_valuation_workflow}

\* a compiled workflow is invoked on the record an entry point builds
Init ==
    /\ \E wf \in Workflows : workflow = wf[1] /\ nodes = wf[2]
    /\ entry \in {ProcessValuationRequest, RunStandaloneValuation}
    /\ \E property_info \in Requests :
          IF entry = ProcessValuationRequest
          THEN \E request_data \in
                      {property_info, create_property_valuation_request(property_info)},
                  request_id \in RequestIds, requesting_agent \in RequestingAgents :
                  state = process_valuation_request_state(
                              request_data, request_id, requesting_agent)
          ELSE state = run_standalone_valuation_state(property_info)
    /\ initial = state
    /\ pc = "data_collection"
    /\ executed = <<>>
    /\ fault = None
    /\ response = None
    /\ validation = None
    /\ formatted = None

\* a node returns the record s2: the edges after it pick the next node
Complete(node, s2) ==
    /\ state' = after_edges(workflow, node, s2)
    /\ pc' = next_node(workflow, node, s2)
    /\ executed' = Append(executed, node)
    /\ UNCHANGED <<workflow, nodes, entry, initial, fault, response, validation, formatted>>

\* a node raises: the exception leaves workflow.invoke, the record is as it was
Raise(node, error) ==
    /\ pc' = "raised"
    /\ fault' = Some([node |-> node, error |-> error])
    /\ executed' = Append(executed, node)
    /\ UNCHANGED <<state, workflow, nodes, entry, initial, response, validation, formatted>>

DataCollection ==
    /\ pc = "data_collection"
    /\ \/ /\ nodes = "mock"
          /\ Complete("data_collection", mock_property_data_collection_node(state))
       \/ /\ nodes = "llm"
          /\ Complete("data_collection", property_data_collection_node(state))
       \/ /\ nodes = "llm"
          /\ \E e \in LLMErrors : Raise("data_collection", e)

Comparables ==
    /\ pc = "comparables"
    /\ IF comparables_raise(state)
       THEN Raise("comparables", TypeError(comparables_type_error(state)))
       ELSE \/ /\ nodes = "mock"
               /\ \E d \in ComparableDraws :
                     Complete("comparables", mock_comparable_properties_node(state, d))
            \/ /\ nodes = "llm"
               /\ \E d \in ComparableDraws :
                     Complete("comparables", comparable_properties_node(state, d))
            \/ /\ nodes = "llm"
               /\ \E e \in LLMErrors : Raise("comparables", e)

MarketAnalysis ==
    /\ pc = "market_analysis"
    /\ \/ /\ nodes = "mock"
          /\ \E d \in MarketDraws :
                Complete("market_analysis", mock_market_analysis_node(state, d))
       \/ /\ nodes = "llm"
          /\ \E d \in MarketDraws :
                Complete("market_analysis", market_analysis_node(state, d))
       \/ /\ nodes = "llm"
          /\ \E e \in LLMErrors : Raise("market_analysis", e)

FinalValuation ==
    /\ pc = "final_valuation"
    /\ IF final_valuation_raises(state)
       THEN Raise("final_valuation", KeyError(final_valuation_key_error(state)))
       ELSE \/ /\ nodes = "mock"
               /\ Complete("final_valuation", mock_final_valuation_node(state))
            \/ /\ nodes = "llm"
               /\ Complete("final_valuation", final_valuation_node(state))
            \/ /\ nodes = "llm"
               /\ \E e \in LLMErrors : Raise("final_valuation", e)

A2ACommunication ==
    /\ pc = "a2a_communication"
    /\ \/ /\ nodes = "mock"
          /\ Complete("a2a_communication", mock_a2a_communication_node(state))
       \/ /\ nodes = "llm"
          /\ Complete("a2a_communication", a2a_communication_node(state))
       \/ /\ nodes = "llm"
          /\ a2a_communication_calls_llm(state)
          /\ \E e \in LLMErrors : Raise("a2a_communication", e)

Return(by, value) ==
    /\ response' = Some([by |-> by, value |-> value])
    /\ pc' = "returned"

\* process_valuation_request, after workflow.invoke returned
ProcessValuationRequestReturns ==
    /\ pc = "END"
    /\ entry = ProcessValuationRequest
    /\ Return(ProcessValuationRequest,
              process_valuation_request_success(state, initial.request_id, nodes))
    /\ UNCHANGED <<state, workflow, nodes, entry, initial, executed, fault, validation, formatted>>

\* process_valuation_request, except Exception
ProcessValuationRequestCatches ==
    /\ pc = "raised"
    /\ entry = ProcessValuationRequest
    /\ Return(ProcessValuationRequest,
              process_valuation_request_error(fault[1].error, initial.request_id, nodes))
    /\ UNCHANGED <<state, workflow, nodes, entry, initial, executed, fault, validation, formatted>>

RunStandaloneValuationReturns ==
    /\ pc = "END"
    /\ entry = RunStandaloneValuation
    /\ Return(RunStandaloneValuation, run_standalone_valuation_success(state))
    /\ UNCHANGED <<state, workflow, nodes, entry, initial, executed, fault, validation, formatted>>

RunStandaloneValuationCatches ==
    /\ pc = "raised"
    /\ entry = RunStandaloneValuation
    /\ Return(RunStandaloneValuation, run_standalone_valuation_error(fault[1].error))
    /\ UNCHANGED <<state, workflow, nodes, entry, initial, executed, fault, validation, formatted>>

\* The degraded path of the error-handling module: the fault is stamped into the
\* record by handle_node_error and the envelope is built by create_safe_response.
SafeResponse ==
    /\ pc = "raised"
    /\ state' = handle_node_error(state, fault[1].node, fault[1].error)
    /\ Return("create_safe_response", create_safe_response(state'))
    /\ UNCHANGED <<workflow, nodes, entry, initial, executed, fault, validation, formatted>>

\* The request of another agent fails in transport before the workflow runs.
A2ATransportError ==
    /\ pc = "data_collection"
    /\ entry = ProcessValuationRequest
    /\ \E error \in TransportErrors :
          Return("handle_a2a_error", handle_a2a_error(error, state.request_id))
    /\ UNCHANGED <<state, workflow, nodes, entry, initial, executed, fault, validation, formatted>>

\* the consumer validates the envelope the run handed back
ValidateA2AResponse ==
    /\ pc = "returned"
    /\ validation = None
    /\ response[1].by \in EnvelopeProducers
    /\ validation' = Some([response |-> response[1].value,
                           result |-> validate_a2a_response(response[1].value)])
    /\ UNCHANGED <<state, pc, workflow, nodes, entry, initial, executed, fault, response,
                   formatted>>

\* the consumer validates an envelope received from an agent
ValidateReceivedResponse ==
    /\ pc = "data_collection"
    /\ entry = ProcessValuationRequest
    /\ \E r \in ReceivedEnvelopes :
          /\ response' = Some([by |-> "received", value |-> r])
          /\ validation' = Some([response |-> r, result |-> validate_a2a_response(r)])
    /\ pc' = "returned"
    /\ UNCHANGED <<state, workflow, nodes, entry, initial, executed, fault, formatted>>

\* The client's caller formats the payload of the envelope it was handed: the
\* server loop when the status is SUCCESS, the mortgage agent's request flow
\* when the validation accepted the envelope.
FormatResponseForMortgageAgent ==
    /\ pc = "returned"
    /\ formatted = None
    /\ <<workflow, nodes>> \in ClientWorkflows
    /\ response[1].by = ProcessValuationRequest
    /\ \/ response[1].value.status = "SUCCESS"
       \/ validation # None /\ validation[1].result = Returns(TRUE)
    /\ formatted' = Some(format_response_for_mortgage_agent_call(response[1].value.data))
    /\ UNCHANGED <<state, pc, workflow, nodes, entry, initial, executed, fault, response,
                   validation>>

Next ==
    \/ DataCollection
    \/ Comparables
    \/ MarketAnalysis
    \/ FinalValuation
    \/ A2ACommunication
    \/ ProcessValuationRequestReturns
    \/ ProcessValuationRequestCatches
    \/ RunStandaloneValuationReturns
    \/ RunStandaloneValuationCatches
    \/ SafeResponse
    \/ A2ATransportError
    \/ ValidateA2AResponse
    \/ ValidateReceivedResponse
    \/ FormatResponseForMortgageAgent

Spec == Init /\ [][Next]_vars

-----------------------------------------------------------------------------
(* Notions the properties share *)

Stages ==
    <<"data_collection", "comparables", "market_analysis", "final_valuation",
      "a2a_communication">>

\* the workflow ran to its end: the last node entered is the last stage, no fault
RunCompleted ==
    /\ fault = None
    /\ executed # <<>>
    /\ executed[Len(executed)] = "a2a_communication"

\* the required attributes that hold no value
absent_fields(s) == SelectSeq(required_fields, LAMBDA f : s[f] = None)

IsPrefix(a, b) == Len(a) <= Len(b) /\ a = SubSeq(b, 1, Len(a))

DispatchTexts ==
    {"Mock response sent to {} for request {}", "Response sent to {} for request {}"}

DispatchWarnings(s) == {i \in DOMAIN s.warnings : s.warnings[i][1] \in DispatchTexts}

-----------------------------------------------------------------------------
(* Properties *)

\* C1: in every reachable state of a record, estimated_value is set exactly when
\* confidence_level, confidence_score and valuation_range are set on the record,
\* and then valuation_range.min_value <= estimated_value <= valuation_range.max_value.
ResultsAllOrNothing ==
    LET valued == state.estimated_value # None
    IN  /\ (state.confidence_level # None) <=> valued
        /\ (state.valuation_range # None) <=> valued
        /\ ("confidence_score" \in DOMAIN state) <=> valued
        /\ valued =>
              /\ state.valuation_range[1].min_value <= state.estimated_value[1]
              /\ state.estimated_value[1] <= state.valuation_range[1].max_value

\* C2: every response envelope handed to a caller (by process_valuation_request,
\* create_safe_response or handle_a2a_error) contains the keys status, request_id
\* and agent, and a raised fault never stays uncaught.
EnvelopesWellFormed ==
    /\ (response # None /\ response[1].by \in EnvelopeProducers)
          => {"status", "request_id", "agent"} \subseteq DOMAIN response[1].value
    /\ pc = "raised" => ENABLED Next

\* C3: when a stage raised a fault, the envelope the caller gets has status
\* PARTIAL_SUCCESS and carries the estimate if estimated_value was set when the
\* fault occurred, and has status ERROR otherwise.
FaultGivesDegradedEnvelope ==
    (fault # None /\ response # None /\ response[1].by \in EnvelopeProducers) =>
        LET envelope == response[1].value
        IN  IF state.estimated_value # None
            THEN /\ envelope.status = "PARTIAL_SUCCESS"
                 /\ envelope.data # None
                 /\ envelope.data[1].estimated_value = state.estimated_value
            ELSE envelope.status = "ERROR"

\* C4: across every step (a stage with the edge functions after it, the fault
\* handler) the error log and the warning log before the step are prefixes of
\* the logs after it.
LogsAppendOnly ==
    [][/\ IsPrefix(state.errors, state'.errors)
       /\ IsPrefix(state.warnings, state'.warnings)]_vars

\* C4 witness: both a stage and handle_node_error have appended to the error log
LogsAppendOnlyWitness ==
    /\ response # None
    /\ response[1].by = "create_safe_response"
    /\ Len(state.errors) = 2
    /\ Len(initial.errors) = 0

\* C5 as stated: a completed run without requesting agent ends with no dispatch
\* warning, and a completed run with a requesting agent ends with exactly one,
\* which names the requesting agent and the request id.
DispatchWarningPerInvocation ==
    RunCompleted =>
        IF state.requesting_agent = None
        THEN DispatchWarnings(state) = {}
        ELSE /\ Cardinality(DispatchWarnings(state)) = 1
             /\ \A i \in DispatchWarnings(state) :
                   state.warnings[i][2] =
                       <<state.requesting_agent[1], Format(state.request_id)>>

\* C5 amended: a completed run ends with exactly one dispatch warning, naming the
\* requesting agent and the request id, when the record has a non-empty requesting
\* agent and a response payload (FinalValuation ran), and with none otherwise.
DispatchWarningWhenPayload ==
    RunCompleted =>
        IF TruthyStr(state.requesting_agent) /\ state.response_data # None
        THEN /\ Cardinality(DispatchWarnings(state)) = 1
             /\ \A i \in DispatchWarnings(state) :
                   state.warnings[i][2] =
                       <<state.requesting_agent[1], Format(state.request_id)>>
        ELSE DispatchWarnings(state) = {}

\* C5 witness: a completed A2A run that holds its dispatch warning
DispatchWarningWitness ==
    /\ RunCompleted
    /\ state.requesting_agent # None
    /\ Cardinality(DispatchWarnings(state)) = 1
    /\ Len(state.warnings) = 2

\* C6: in the linear pipeline a run enters the five stages once each and in order:
\* the node to run next is always the one after the last entered, a fault-free run
\* is at its end only after all five, and every run terminates (each step enters
\* the next stage or returns to the caller, a step is possible until it returns,
\* and after it only the consumer's one validation of the envelope and one
\* formatting of its payload follow).
LinearStagesInOrder ==
    /\ [](workflow = Linear =>
            /\ IsPrefix(executed, Stages)
            /\ (fault = None /\ pc = "END") => executed = Stages
            /\ (fault = None /\ pc \notin {"END", "returned"}) =>
                  pc = Stages[Len(executed) + 1]
            /\ (fault = None /\ pc = "returned"
                    /\ response[1].by \in {ProcessValuationRequest, RunStandaloneValuation})
                  => executed = Stages
            /\ pc # "returned" => ENABLED Next)
    /\ [][workflow = Linear =>
            \/ executed' = Append(executed, pc) /\ pc \in {Stages[i] : i \in DOMAIN Stages}
            \/ executed' = executed /\ pc # "returned" /\ pc' = "returned"
            \/ executed' = executed /\ pc = "returned" /\ pc' = "returned"
                  /\ validation = None /\ validation' # None
            \/ executed' = executed /\ pc = "returned" /\ pc' = "returned"
                  /\ formatted = None /\ formatted' # None]_vars

\* C6 witness: a fault-free linear run at its terminal state
LinearStagesInOrderWitness ==
    /\ workflow = Linear
    /\ fault = None
    /\ pc = "returned"
    /\ executed = Stages
    /\ state.current_step = "a2a_response_sent"

\* C7: in the linear pipeline a record of process_valuation_request with three or
\* four required attributes absent is not halted by a stage: no stage raises on
\* it, and at the end of the run one error is logged and estimated_value is set.
IncompleteRecordStillValued ==
    (/\ workflow = Linear
     /\ entry = ProcessValuationRequest
     /\ Len(absent_fields(initial)) >= 3) =>
        /\ fault # None => fault[1].error \in LLMErrors
        /\ RunCompleted => /\ state.estimated_value # None
                           /\ Len(state.errors) = 1

\* C8: ComparablesAnalysis raises no fault of its own on a record whose square
\* footage, bedrooms or bathrooms is None, writes its comparable set and summary,
\* and divides by 2000 when square footage is None.
ComparablesToleratesAbsence ==
    /\ (fault # None /\ fault[1].node = "comparables") => fault[1].error \in LLMErrors
    /\ (state.current_step = "comparables_analyzed"
            /\ state.square_footage = None) =>
          /\ Len(state.comparable_properties) > 0
          /\ state.comparable_analysis.price_per_square_foot.den = AssumedSquareFootage

\* C9: DataIntake, with missing the number of absent required attributes: none
\* absent appends nothing; one or two absent append one warning and no error;
\* three or more append one error and no warning; current_step becomes
\* property_data_collected and no other field changes.
DataIntakeByAbsentCount ==
    [][(pc = "data_collection" /\ executed' = <<"data_collection">> /\ fault' = None) =>
        LET missing == Len(absent_fields(state))
            stepped == [state EXCEPT !.current_step = "property_data_collected"]
        IN  /\ missing = 0 => state' = stepped
            /\ (1 <= missing /\ missing <= 2) =>
                  /\ Len(state'.warnings) = Len(state.warnings) + 1
                  /\ state' = [stepped EXCEPT !.warnings = state'.warnings]
            /\ missing >= 3 =>
                  /\ Len(state'.errors) = Len(state.errors) + 1
                  /\ state' = [stepped EXCEPT !.errors = state'.errors]]_vars

\* C10: the market adjustment MarketAnalysis writes is within [-20, 20] for every
\* combination of trend direction, buyer demand, inventory level and school rating.
MarketAdjustmentBounded ==
    "total_adjustment_percent" \in DOMAIN state.market_adjustment =>
        /\ state.market_adjustment.total_adjustment_percent >= -20
        /\ state.market_adjustment.total_adjustment_percent <= 20

\* C10 witness: MarketAnalysis has written the largest adjustment the factors give
MarketAdjustmentBoundedWitness ==
    /\ state.current_step = "market_analyzed"
    /\ state.market_trends.market_direction = "RISING"
    /\ state.market_trends.buyer_demand = "HIGH"
    /\ state.market_trends.inventory_level = "LOW"
    /\ state.neighborhood_data.school_rating = MaxSchoolRating
    /\ state.market_adjustment.total_adjustment_percent = 12

\* the record holds what FinalValuation wrote
Valued == state.estimated_value # None

EstimateIsAdjustedAverage ==
    Valued =>
        LET avg == state.comparable_analysis.average_sale_price
            adj == state.market_adjustment.total_adjustment_percent
            est == state.estimated_value[1]
        IN  /\ avg % 10000 = 0
            /\ est % 10000 = 0
            /\ (est \div 10000) * 100 = (avg \div 10000) * (100 + adj)
            /\ (/\ avg = Dollars(460000)
                /\ adj = 3
                /\ TruthyNum(state.square_footage)
                /\ Len(state.comparable_properties) = 3) =>
                  /\ est = Dollars(473800)
                  /\ state.confidence_level = Some("HIGH")
                  /\ state.response_data[1].confidence_score = 85
                  /\ state.valuation_range[1] =
                        [min_value |-> Dollars(450110), max_value |-> Dollars(497490)]

\* C12 witness: the scenario with average 460000 and adjustment +3 has been valued
EstimateIsAdjustedAverageWitness ==
    /\ Valued
    /\ state.comparable_analysis.average_sale_price = Dollars(460000)
    /\ state.market_adjustment.total_adjustment_percent = 3
    /\ state.square_footage = Some(SampleSquareFootage)
    /\ state.estimated_value = Some(Dollars(473800))

\* C13: validate_a2a_response accepts an envelope exactly when it contains
\* status, request_id and agent and, if its status is SUCCESS, its data contains
\* estimated_value, confidence_level and valuation_range; it rejects a SUCCESS
\* envelope whose data lacks valuation_range and accepts an ERROR envelope with
\* only status, request_id and agent.
ValidationAcceptsExactly ==
    validation # None =>
        LET r == validation[1].response
            result == validation[1].result
            has_keys == {"status", "request_id", "agent"} \subseteq DOMAIN r
            has_data == "data" \in DOMAIN r /\ r.data # None
            well_formed ==
                /\ has_keys
                /\ r.status = "SUCCESS" =>
                      /\ has_data
                      /\ {"estimated_value", "confidence_level", "valuation_range"}
                            \subseteq DOMAIN r.data[1]
        IN  /\ (result.returns = Some(TRUE)) <=> well_formed
            /\ (/\ has_keys
                /\ r.status = "SUCCESS"
                /\ has_data
                /\ "valuation_range" \notin DOMAIN r.data[1]) => result.returns = Some(FALSE)
            /\ (DOMAIN r = {"status", "request_id", "agent"} /\ r.status = "ERROR")
                  => result.returns = Some(TRUE)

\* C13 witness: a SUCCESS envelope whose data lacks only valuation_range was rejected
ValidationAcceptsExactlyWitness ==
    /\ validation # None
    /\ DOMAIN validation[1].response = {"status", "request_id", "agent", "data"}
    /\ validation[1].response.status = "SUCCESS"
    /\ validation[1].response.data # None
    /\ DOMAIN validation[1].response.data[1] = {"estimated_value", "confidence_level"}
    /\ validation[1].result.returns = Some(FALSE)

\* C14: when a run of process_valuation_request (on a workflow the client
\* compiles) completes without fault, the envelope has status SUCCESS, data equal
\* to the response payload FinalValuation wrote, errors and warnings equal to the
\* record's final logs and the record's request id, and validate_a2a_response
\* accepts it.
SuccessEnvelopeCarriesPayload ==
    (/\ entry = ProcessValuationRequest
     /\ <<workflow, nodes>> \in ClientWorkflows
     /\ fault = None
     /\ response # None
     /\ response[1].by = ProcessValuationRequest) =>
        LET envelope == response[1].value
        IN  /\ envelope.status = "SUCCESS"
            /\ state.response_data # None
            /\ envelope.data = state.response_data
            /\ envelope.errors = state.errors
            /\ envelope.warnings = state.warnings
            /\ envelope.request_id = state.request_id
            /\ validation # None => validation[1].result.returns = Some(TRUE)

\* C14 witness: the SUCCESS envelope of a fault-free run has been validated
SuccessEnvelopeCarriesPayloadWitness ==
    /\ entry = ProcessValuationRequest
    /\ <<workflow, nodes>> \in ClientWorkflows
    /\ fault = None
    /\ response # None
    /\ response[1].by = ProcessValuationRequest
    /\ Len(response[1].value.warnings) = 2
    /\ validation # None
    /\ validation[1].result.returns = Some(TRUE)

\* DataIntake's own entry is the first of the error log
DataIntakeLoggedError ==
    /\ state.errors # <<>>
    /\ state.errors[1][1] = "Insufficient property data: missing"

\* C15: under conditional routing, when DataIntake appended an error the next
\* stage entered is ResponseDispatch, no other stage runs, and the run ends with
\* estimated_value, valuation_range and the response payload empty; when it
\* appended none the next stage entered is ComparablesAnalysis.
ConditionalShortCircuit ==
    /\ [][(workflow = Conditional /\ pc = "data_collection"
                /\ executed' = <<"data_collection">>) =>
             IF Len(state'.errors) > Len(state.errors)
             THEN pc' = "a2a_communication"
             ELSE pc' = "comparables"]_vars
    /\ [](workflow = Conditional /\ executed # <<>> =>
            IF DataIntakeLoggedError
            THEN /\ \/ executed = <<"data_collection">> /\ pc = "a2a_communication"
                    \/ /\ executed = <<"data_collection", "a2a_communication">>
                       /\ pc \in {"END", "returned"}
                 /\ fault = None
                 /\ state.estimated_value = None
                 /\ state.valuation_range = None
                 /\ state.response_data = None
                 /\ pc # "returned" => ENABLED Next
            ELSE Len(executed) >= 2 => executed[2] = "comparables")

\* C15 witness: a short-circuited run has returned
ConditionalShortCircuitWitness ==
    /\ workflow = Conditional
    /\ DataIntakeLoggedError
    /\ executed = <<"data_collection", "a2a_communication">>
    /\ pc = "returned"
    /\ state.current_step = "valuation_ready_for_use"

\* C16: when a stage raised a fault, handling it appends exactly one error entry
\* naming the stage, stamps current_step with '<stage>_failed' (or
\* 'workflow_failed' for a PropertyValuationError with a non-recoverable code),
\* changes nothing else in the record, and the run has then returned (stated for
\* the faults the nodes of mock_nodes.py raise themselves).
FaultStampedOnce ==
    [][(nodes = "mock" /\ pc = "raised" /\ pc' = "returned") =>
        LET node == fault[1].node
            error == fault[1].error
            entry_for_fault == <<"Error in {}: {}", <<node, error.message>> >>
            stamp ==
                IF error.type = "PropertyValuationError"
                      /\ error.error_code \in
                            {"INVALID_PROPERTY", "API_FAILURE", "CONFIGURATION_ERROR"}
                THEN "workflow_failed"
                ELSE failed_step(node)
        IN  state' = [state EXCEPT !.errors = Append(@, entry_for_fault),
                                   !.current_step = stamp]]_vars

\* C17: the envelope of handle_a2a_error has status ERROR, data null, agent
\* PropertyValuation and the request id it was given, and one error code chosen
\* by the words of the message: timeout first, then authentication or
\* credentials, then network or connection, else the generic code.
TransportErrorClassified ==
    (response # None /\ response[1].by = "handle_a2a_error") =>
        LET envelope == response[1].value
            words == envelope.error_message
        IN  /\ envelope.status = "ERROR"
            /\ envelope.data = None
            /\ envelope.agent = "PropertyValuation"
            /\ envelope.request_id = initial.request_id
            /\ envelope.error_code =
                  IF "timeout" \in words THEN "A2A_TIMEOUT"
                  ELSE IF words \cap {"authentication", "credentials"} # {}
                  THEN "A2A_AUTH_ERROR"
                  ELSE IF words \cap {"network", "connection"} # {}
                  THEN "A2A_NETWORK_ERROR"
                  ELSE "A2A_COMMUNICATION_ERROR"

\* C17 witness: a message that mentions both a timeout and the network
TransportErrorClassifiedWitness ==
    /\ response # None
    /\ response[1].by = "handle_a2a_error"
    /\ response[1].value.error_message = {"timeout", "network"}
    /\ response[1].value.error_code = "A2A_TIMEOUT"

\* the identity / input fields and the A2A correlation fields of a record
IdentityFields ==
    {"property_address", "property_type", "square_footage", "bedrooms", "bathrooms",
     "year_built", "lot_size", "request_id", "requesting_agent"}

\* C18: in every reachable state the identity / input fields and the A2A
\* correlation fields of the record equal their values at record creation.
IdentityFieldsImmutable == \A f \in IdentityFields : state[f] = initial[f]

\* C18 witness: a record with a missing attribute has passed DataIntake and the
\* fault handler
IdentityFieldsImmutableWitness ==
    /\ initial.square_footage = None
    /\ initial.requesting_agent # None
    /\ state.current_step = "comparables_failed"
    /\ \A f \in IdentityFields : state[f] = initial[f]

\* the result fields and the response payload of a record
Results(s) == <<s.estimated_value, s.confidence_level, s.valuation_range, s.response_data>>

\* C19: the result fields and the response payload are empty in every state
\* before FinalValuation has completed, every step other than FinalValuation
\* leaves them unchanged, and FinalValuation writes all of them in one step.
OnlyFinalValuationWritesResults ==
    /\ []((\A i \in DOMAIN executed : executed[i] # "final_valuation")
              => Results(state) = <<None, None, None, None>>)
    /\ [][IF pc = "final_valuation" /\ pc' = "a2a_communication"
          THEN /\ Results(state) = <<None, None, None, None>>
               /\ \A i \in 1..4 : Results(state')[i] # None
          ELSE Results(state') = Results(state)]_vars

\* C19 witness: FinalValuation has just written the results
OnlyFinalValuationWritesResultsWitness ==
    /\ pc = "a2a_communication"
    /\ state.current_step = "valuation_completed"
    /\ \A i \in 1..4 : Results(state)[i] # None

\* C20: ResponseDispatch raises no fault in any record state it is entered in,
\* appends nothing to the error log, leaves the result fields unchanged, and sets
\* current_step to a2a_response_sent when a requesting agent and a response
\* payload are both present and to valuation_ready_for_use otherwise.
DispatchNeverFails ==
    [][pc = "a2a_communication" =>
        /\ fault' = None
        /\ state'.errors = state.errors
        /\ Results(state') = Results(state)
        /\ state'.current_step =
              IF state.requesting_agent # None /\ state.response_data # None
              THEN "a2a_response_sent"
              ELSE "valuation_ready_for_use"]_vars

\* C21: the response formatted for the mortgage agent copies estimated_value,
\* confidence_level, confidence_score, valuation_range, valuation_date (as
\* appraisal_date) and appraiser_notes of the payload unchanged; high_confidence
\* is true exactly when the confidence level is HIGH, market_stable exactly when
\* the confidence score is above 70, and ltv_ready and
\* comparable_data_sufficient are always true.
FormattedResponseCopiesPayload ==
    (formatted # None /\ formatted[1].raises = None) =>
        LET valuation_data == response[1].value.data[1]
            f == formatted[1].returns[1]
        IN  /\ f.property_valuation.estimated_value = valuation_data.estimated_value
            /\ f.property_valuation.confidence_level = valuation_data.confidence_level
            /\ f.property_valuation.confidence_score = valuation_data.confidence_score
            /\ f.property_valuation.valuation_range = valuation_data.valuation_range
            /\ f.property_valuation.appraisal_date = valuation_data.valuation_date
            /\ f.property_valuation.appraiser_notes = valuation_data.appraiser_notes
            /\ f.loan_to_value_calculation.estimated_value = valuation_data.estimated_value
            /\ f.valuation_flags.high_confidence
                  <=> valuation_data.confidence_level = Some("HIGH")
            /\ f.valuation_flags.market_stable <=> valuation_data.confidence_score > 70
            /\ f.loan_to_value_calculation.ltv_ready
            /\ f.valuation_flags.comparable_data_sufficient

\* C21 witness: a MEDIUM payload with the score 70 was formatted
FormattedResponseCopiesPayloadWitness ==
    /\ formatted # None
    /\ formatted[1].raises = None
    /\ response[1].value.data[1].confidence_score = 70
    /\ ~formatted[1].returns[1].valuation_flags.market_stable
    /\ ~formatted[1].returns[1].valuation_flags.high_confidence

\* C22: the attributes DataIntake counts as missing are exactly the absent ones:
\* after the stage the list its warning or error reports (none reported: the
\* empty list) is the list of required attributes that hold no value, so an
\* attribute supplied as 0 is not in it and causes no warning or error.
MissingAreTheAbsent ==
    (executed = <<"data_collection">> /\ fault = None) =>
        LET reported ==
                IF state.errors # <<>> THEN state.errors[1][2]
                ELSE IF state.warnings # <<>> THEN state.warnings[1][2]
                ELSE <<>>
        IN  reported = absent_fields(initial)

\* the position of a progress marker in the order of the stages
StepRank(step) ==
    CASE step = "initialized" -> 0
      [] step = "property_data_collected" -> 1
      [] step = "comparables_analyzed" -> 2
      [] step = "market_analyzed" -> 3
      [] step = "valuation_completed" -> 4
      [] step \in {"a2a_response_sent", "valuation_ready_for_use"} -> 5
      [] OTHER -> -1

\* the stages that completed: all entered ones but the one that raised
CompletedStages ==
    IF fault = None THEN executed ELSE SubSeq(executed, 1, Len(executed) - 1)

\* the rank of the marker a stage stamps when it completes
StageRank(node) == CHOOSE i \in DOMAIN Stages : Stages[i] = node

\* C23: along a run of the workflow current_step only moves forward through
\* initialized, property_data_collected, comparables_analyzed, market_analyzed,
\* valuation_completed, then a2a_response_sent or valuation_ready_for_use (the
\* conditional routing may skip the middle three): a stage that completes moves
\* it to a later marker, no step moves it to an earlier one, and at every point
\* of the run it is the marker of the stage that completed most recently.
CurrentStepAdvances ==
    /\ [](pc # "returned" =>
            StepRank(state.current_step) =
                IF CompletedStages = <<>> THEN 0
                ELSE StageRank(CompletedStages[Len(CompletedStages)]))
    /\ [][pc' # "returned" =>
            /\ StepRank(state'.current_step) >= StepRank(state.current_step)
            /\ fault' = None =>
                  StepRank(state'.current_step) > StepRank(state.current_step)]_vars

\* C23 witness: the conditional routing went from DataIntake to ResponseDispatch
\* and the run is at its end with the final marker
CurrentStepAdvancesWitness ==
    /\ workflow = Conditional
    /\ pc = "END"
    /\ executed = <<"data_collection", "a2a_communication">>
    /\ state.current_step = "valuation_ready_for_use"

\* C24: the adjustment MarketAnalysis writes is the sum of four factors, trend
\* (+2 RISING, -2 DECLINING, 0 STABLE), demand (+3 HIGH, -3 LOW, 0 MODERATE),
\* inventory (-2 HIGH, +2 LOW, 0 MODERATE) and neighborhood (+5 for a school
\* rating of 9 or more, +2 for 7 or more, else -2), and the market confidence is
\* HIGH when the sum is within 5 of zero, MEDIUM when within 10, else LOW, for
\* every combination of the four inputs with the school rating in 6..10.
MarketAdjustmentIsFactorSum ==
    "total_adjustment_percent" \in DOMAIN state.market_adjustment =>
        LET trend ==
                CASE state.market_trends.market_direction = "RISING" -> 2
                  [] state.market_trends.market_direction = "DECLINING" -> -2
                  [] state.market_trends.market_direction = "STABLE" -> 0
            demand ==
                CASE state.market_trends.buyer_demand = "HIGH" -> 3
                  [] state.market_trends.buyer_demand = "LOW" -> -3
                  [] state.market_trends.buyer_demand = "MODERATE" -> 0
            inventory ==
                CASE state.market_trends.inventory_level = "HIGH" -> -2
                  [] state.market_trends.inventory_level = "LOW" -> 2
                  [] state.market_trends.inventory_level = "MODERATE" -> 0
            neighborhood ==
                CASE state.neighborhood_data.school_rating \in {9, 10} -> 5
                  [] state.neighborhood_data.school_rating \in {7, 8} -> 2
                  [] state.neighborhood_data.school_rating = 6 -> -2
            sum == trend + demand + inventory + neighborhood
        IN  /\ state.market_adjustment.adjustment_factors =
                  [trend_adjustment |-> trend,
                   demand_adjustment |-> demand,
                   inventory_adjustment |-> inventory,
                   neighborhood_adjustment |-> neighborhood]
            /\ state.market_adjustment.total_adjustment_percent = sum
            /\ state.market_adjustment.market_confidence =
                  CASE sum \in -5..5 -> "HIGH"
                    [] sum \in (-10..-6) \cup (6..10) -> "MEDIUM"
                    [] OTHER -> "LOW"

\* C24 witness: all four factors at their highest, the sum 12 is tagged LOW
MarketAdjustmentIsFactorSumWitness ==
    /\ "total_adjustment_percent" \in DOMAIN state.market_adjustment
    /\ state.market_trends.market_direction = "RISING"
    /\ state.market_trends.buyer_demand = "HIGH"
    /\ state.market_trends.inventory_level = "LOW"
    /\ state.neighborhood_data.school_rating = 10
    /\ state.market_adjustment.total_adjustment_percent = 12
    /\ state.market_adjustment.market_confidence = "LOW"

\* C25: the quality score DataIntake computes for a record is max(0, 100 - 20 *
\* missing), with missing the number of attributes the stage found missing: no
\* missing attribute gives COMPLETE and the score 100, four give INCOMPLETE and
\* the score 20, and the score is always within 0..100.
QualityScoreFormula ==
    (executed # <<>> /\ (fault = None \/ Len(executed) > 1)) =>
        LET missing == missing_fields(initial)
            score == data_quality_score(missing)
            linear == 100 - (20 * Len(missing))
        IN  /\ score = (IF linear >= 0 THEN linear ELSE 0)
            /\ score \in 0..100
            /\ Len(missing) = 0 =>
                  score = 100 /\ data_completeness(missing) = "COMPLETE"
            /\ Len(missing) = 4 =>
                  score = 20 /\ data_completeness(missing) = "INCOMPLETE"

\* C25 witness: DataIntake completed on a record with all four attributes
\* missing and logged the error of an INCOMPLETE record
QualityScoreFormulaWitness ==
    /\ executed = <<"data_collection">>
    /\ fault = None
    /\ Len(missing_fields(initial)) = 4
    /\ data_quality_score(missing_fields(initial)) = 20
    /\ Len(state.errors) = 1

\* C26: every ComparablesAnalysis step writes a non-empty comparable set and a
\* summary of it: number_of_comparables is the length of the set,
\* average_sale_price the mean of the sold prices, price_range_low 0.9 times and
\* price_range_high 1.1 times the average, comparable_quality GOOD; the step
\* moves current_step to comparables_analyzed and leaves both logs as they were.
ComparablesWritesSummary ==
    [][(pc = "comparables" /\ nodes = "mock") =>
        LET comps == state'.comparable_properties
            summary == state'.comparable_analysis
        IN  /\ Len(comps) > 0
            /\ summary.number_of_comparables = Len(comps)
            /\ summary.average_sale_price * Len(comps) = sum_sold_price(comps)
            /\ summary.price_range_low * 10 = summary.average_sale_price * 9
            /\ summary.price_range_high * 10 = summary.average_sale_price * 11
            /\ summary.price_range_low <= summary.average_sale_price
            /\ summary.average_sale_price <= summary.price_range_high
            /\ summary.comparable_quality = "GOOD"
            /\ state'.current_step = "comparables_analyzed"
            /\ state'.errors = state.errors
            /\ state'.warnings = state.warnings]_vars

\* C27: the sold price of every synthesized comparable lies within 10% of its
\* base tier (450000, 475000 and 435000 for the first, second and third
\* comparable), whatever the perturbation drawn.
SoldPricesWithinTenPercent ==
    LET tiers == <<BasePrice1, BasePrice2, BasePrice3>>
    IN  \A i \in DOMAIN state.comparable_properties :
            Abs(state.comparable_properties[i].sold_price - Dollars(tiers[i])) * 10
                <= Dollars(tiers[i])

Structured(s) ==
    [s EXCEPT
        !.warnings =
            [i \in DOMAIN s.warnings |->
                IF s.warnings[i][1] \in DispatchTexts
                THEN <<"dispatch", s.warnings[i][2]>>
                ELSE s.warnings[i]],
        !.response_data =
            IF s.response_data = None THEN None
            ELSE Some([s.response_data[1] EXCEPT !.appraiser_notes = <<"notes", @[2]>>])]

\* the record the mock stages produce from the initial record in the first n
\* stages of the linear order, with the draws cd and md
MockReplay(n, cd, md) ==
    LET s1 == IF n >= 1 THEN mock_property_data_collection_node(initial) ELSE initial
        s2 == IF n >= 2 THEN mock_comparable_properties_node(s1, cd) ELSE s1
        s3 == IF n >= 3 THEN mock_market_analysis_node(s2, md) ELSE s2
        s4 == IF n >= 4 THEN mock_final_valuation_node(s3) ELSE s3
    IN  IF n >= 5 THEN mock_a2a_communication_node(s4) ELSE s4

\* the comparable draws that give the comparable set of the record
ComparableDrawsOf(s) ==
    {d \in ComparableDraws :
        mock_comparables(mock_property_data_collection_node(initial), d)
            = s.comparable_properties}

\* the market and neighborhood draw recorded in the record
MarketDrawOf(s) ==
    [market_direction |-> s.market_trends.market_direction,
     price_change_6_months |-> s.market_trends.price_change_6_months,
     average_days_on_market |-> s.market_trends.average_days_on_market,
     inventory_level |-> s.market_trends.inventory_level,
     buyer_demand |-> s.market_trends.buyer_demand,
     school_rating |-> s.neighborhood_data.school_rating,
     crime_rate |-> s.neighborhood_data.crime_rate,
     walkability_score |-> s.neighborhood_data.walkability_score,
     transportation_access |-> s.neighborhood_data.transportation_access]

\* C29: the LLM-backed stages and the mock stages are equivalent on structured
\* outputs: at every point of a run of the LLM-backed pipeline the record is,
\* apart from the advisory text, the record the mock stages produce from the
\* same initial record with the same draws in the same stages (the same
\* current_step, as many errors and warnings, the same estimated_value,
\* confidence_level, valuation_range, comparable summary and market adjustment).
LLMStagesMatchMock ==
    (nodes = "llm" /\ pc # "returned") =>
        LET n == Len(CompletedStages)
            cds == IF n >= 2 THEN ComparableDrawsOf(state)
                   ELSE {CHOOSE d \in ComparableDraws : TRUE}
            md == IF n >= 3 THEN MarketDrawOf(state)
                  ELSE CHOOSE d \in MarketDraws : TRUE
        IN  /\ md \in MarketDraws
            /\ \E cd \in cds : Structured(state) = Structured(MockReplay(n, cd, md))

\* C29 witness: a run of the LLM-backed pipeline at its end, valued and answered,
\* whose record differs from the mock one in the advisory text
LLMStagesMatchMockWitness ==
    /\ nodes = "llm"
    /\ pc = "END"
    /\ executed = Stages
    /\ state.current_step = "a2a_response_sent"
    /\ state.response_data[1].appraiser_notes[1]
          = "Valuation based on {} comparable sales with {}% market adjustment"
    /\ state # MockReplay(Len(Stages), CHOOSE d \in ComparableDrawsOf(state) : TRUE,
                          MarketDrawOf(state))

\* C30: on a record for which DataIntake appends no error the conditional
\* routing behaves as the linear one: with the same draws a run of either enters
\* the same stages in the same order, the five of them when it reaches its end,
\* the node to run next is the one the linear wiring names, the record is at
\* every point the one the stages alone produce in the linear order, and the
\* warning of a POOR comparable set is never appended.
ConditionalMatchesLinear ==
    (/\ workflow \in {Conditional, Linear}
     /\ nodes = "mock"
     /\ pc # "returned"
     /\ mock_property_data_collection_node(initial).errors = <<>>) =>
        LET n == Len(CompletedStages)
            cds == IF n >= 2 THEN ComparableDrawsOf(state)
                   ELSE {CHOOSE d \in ComparableDraws : TRUE}
            md == IF n >= 3 THEN MarketDrawOf(state)
                  ELSE CHOOSE d \in MarketDraws : TRUE
        IN  /\ IsPrefix(executed, Stages)
            /\ fault = None =>
                  pc = IF n = 0 THEN "data_collection" ELSE linear_edge(executed[n])
            /\ pc = "END" => executed = Stages
            /\ \E cd \in cds : state = MockReplay(n, cd, md)
            /\ \A i \in DOMAIN state.warnings :
                  state.warnings[i][1] # "Limited comparable data available"

\* C30 witness: a run under the conditional routing at its end after all five
\* stages, on a record with one attribute missing that DataIntake warned about
ConditionalMatchesLinearWitness ==
    /\ workflow = Conditional
    /\ pc = "END"
    /\ executed = Stages
    /\ initial.year_built = None
    /\ state.errors = <<>>
    /\ Len(state.warnings) >= 1
    /\ state.estimated_value # None

\* C31: the clamp of MarketAnalysis is never active: the sum of the four factors
\* the stage recorded lies in -9..12 and total_adjustment_percent is that sum,
\* and FinalValuation raises its volatility flag exactly when the sum is 12,
\* which is the case of a RISING trend, HIGH demand, LOW inventory and a school
\* rating of 9 or more.
ClampNeverActive ==
    "total_adjustment_percent" \in DOMAIN state.market_adjustment =>
        LET sum == total_of(state.market_adjustment.adjustment_factors)
            best == /\ state.market_trends.market_direction = "RISING"
                    /\ state.market_trends.buyer_demand = "HIGH"
                    /\ state.market_trends.inventory_level = "LOW"
                    /\ state.neighborhood_data.school_rating >= 9
        IN  /\ sum \in -9..12
            /\ state.market_adjustment.total_adjustment_percent = sum
            /\ sum = 12 <=> best
            /\ "limitations" \in DOMAIN state.final_assessment =>
                  (sum = 12 <=>
                      \E i \in DOMAIN state.final_assessment.limitations :
                          state.final_assessment.limitations[i] = "High market volatility")

\* C31 witness: FinalValuation flagged the volatility of the sum 12
ClampNeverActiveWitness ==
    /\ "limitations" \in DOMAIN state.final_assessment
    /\ total_of(state.market_adjustment.adjustment_factors) = 12
    /\ state.market_adjustment.total_adjustment_percent = 12
    /\ state.final_assessment.limitations = <<"High market volatility">>

\* C32: for every response payload FinalValuation produces, the view that
\* format_response_for_mortgage_agent gives of it has market_stable equal to
\* high_confidence: both true for HIGH with the score 85, both false for MEDIUM
\* with 70 and for LOW with 55, so a MEDIUM valuation is never market_stable;
\* the view the client's caller was given is that view.
MarketStableIsHighConfidence ==
    /\ state.response_data # None =>
          LET payload == state.response_data[1]
              flags == format_response_for_mortgage_agent(payload).valuation_flags
          IN  /\ <<payload.confidence_level, payload.confidence_score>>
                    \in {<<Some("HIGH"), 85>>, <<Some("MEDIUM"), 70>>, <<Some("LOW"), 55>>}
              /\ flags.market_stable = flags.high_confidence
              /\ flags.high_confidence <=> payload.confidence_level = Some("HIGH")
    /\ (formatted # None /\ formatted[1].raises = None) =>
          LET flags == formatted[1].returns[1].valuation_flags
          IN  flags.market_stable = flags.high_confidence

\* C32 witness: the view of a HIGH payload with the score 85 was handed out with
\* both flags true
MarketStableIsHighConfidenceWitness ==
    /\ formatted # None
    /\ formatted[1].raises = None
    /\ state.response_data[1].confidence_level = Some("HIGH")
    /\ state.response_data[1].confidence_score = 85
    /\ formatted[1].returns[1].valuation_flags.market_stable
    /\ formatted[1].returns[1].valuation_flags.high_confidence

\* C33: validate_a2a_response is total: whatever envelope it is given, one with
\* the status SUCCESS and a null or absent data included, it returns true or
\* false and raises nothing.
ValidationIsTotal ==
    validation # None =>
        /\ validation[1].result.raises = None
        /\ validation[1].result.returns \in {Some(TRUE), Some(FALSE)}

\* C34: the envelope create_safe_response builds from a record on which
\* FinalValuation has completed reports in its data the estimated_value, the
\* confidence_level, the confidence_score (85, 70 or 55) and the valuation_range
\* that FinalValuation computed for the record, and its errors and warnings are
\* the logs of the record.
SafeResponseReportsValuation ==
    (/\ response # None
     /\ response[1].by = "create_safe_response"
     /\ "confidence_score" \in DOMAIN state.final_assessment) =>
        LET envelope == response[1].value
            data == envelope.data[1]
        IN  /\ data.estimated_value = state.estimated_value
            /\ data.confidence_level = state.confidence_level
            /\ data.valuation_range = state.valuation_range
            /\ envelope.errors = state.errors
            /\ envelope.warnings = state.warnings
            /\ data.confidence_score = state.final_assessment.confidence_score
            /\ data.confidence_score \in {85, 70, 55}

\* C35: a response with the status SUCCESS that process_valuation_request gives
\* to a request built by create_property_valuation_request, which asks for the
\* confidence MEDIUM at least, never carries the confidence_level LOW, whatever
\* the request holds, a square footage of 0 or none included.
SuccessNeverLowConfidence ==
    (/\ <<workflow, nodes>> = create_mock_property_valuation_workflow
     /\ response # None
     /\ response[1].by = ProcessValuationRequest
     /\ response[1].value.status = "SUCCESS"
     /\ response[1].value.data # None) =>
        response[1].value.data[1].confidence_level # Some("LOW")

====
